---------------------------- MODULE Spec2Model ----------------------------
(***************************************************************************)
(* A model of spc-player: the Spcduino serial driver (spcduino.ts) and the *)
(* SpcWriter image composer (spc-writer.ts).                               *)
(*                                                                         *)
(* The driver is modelled at the granularity of the JavaScript event loop: *)
(* one action per I/O callback (drain callback, 'data' event, 'error'      *)
(* event, open callback) and per invocation by the caller.  An action runs *)
(* the callback and then every promise continuation it made ready, as Node *)
(* empties the microtask queue before the next I/O callback.  The drain    *)
(* callbacks of one port fire in the order they were registered.           *)
(*                                                                         *)
(* The composer is a second state machine (WriterSpec) over its own        *)
(* variables: the two classes share no state.                              *)
(***************************************************************************)
EXTENDS Integers, Sequences, FiniteSets, TLC

(***************************************************************************)
(* Program constants of the driver                                         *)
(***************************************************************************)
CMD_RESET == 1
CMD_LOAD_DSP == 2
CMD_START_SPC == 3
CMD_SPC_CHUNK == 4
CMD_PLAY == 5

RSP_OKAY == 1
RSP_FAIL == 2
RSP_BAD_CHECKSUM == 3
RSP_READY == 86

MAX_SEND_SIZE == 64
ZERO_PAGE_SIZE == 239 - 2
SPC_CHUNK_SIZE == 128

\* loadSPC: the first body address, and the bound of its while loop
BODY_START == 256
BODY_LIMIT == 65535

\* 64KB of program memory, 128 DSP registers
SPC_RAM_SIZE == 65536
DSP_REGISTER_COUNT == 128

(***************************************************************************)
(* Bounds of the model                                                     *)
(***************************************************************************)
\* driver operations the caller invokes in one session
MaxInvocations == 2
\* operations a caller that does not await may have running at once
MaxInFlight == 2
\* 'data' events delivered to a caller that does not await
MaxOverlapResponses == 3
\* settled calls whose frame is still being written, at any one time
MaxStaleWrites == 1
\* bytes of a frame not yet handed to the port when the event that settles its
\* call arrives (the device answers frames it has received)
MaxUnsentAtResponse == 0

(***************************************************************************)
(* Bytes and buffers.  A Buffer is a sequence of bytes; index k of the     *)
(* code is element k + 1.                                                  *)
(***************************************************************************)
Min(a, b) == IF a < b THEN a ELSE b

\* buffer.reduce((p, c) => (p + c) & 0xFF, 0): a left fold, the accumulator
\* carried from element lo to element hi in order.  The range is halved and
\* the accumulator, always a byte, is looked at before the next element is
\* added, which keeps the evaluation shallow.
RECURSIVE ReduceFrom(_, _, _, _)
ReduceFrom(buffer, lo, hi, previousValue) ==
  IF previousValue \notin 0..255 \/ lo > hi THEN previousValue
  ELSE IF hi - lo < 16
  THEN ReduceFrom(buffer, lo + 1, hi, (previousValue + buffer[lo]) % 256)
  ELSE LET mid == (lo + hi) \div 2
       IN ReduceFrom(buffer, mid + 1, hi, ReduceFrom(buffer, lo, mid, previousValue))

\* a checksum that leaves out the last byte of the buffer
calculateChecksumButLast(buffer) == ReduceFrom(buffer, 1, Len(buffer) - 1, 0)

calculateChecksum(buffer) == ReduceFrom(buffer, 1, Len(buffer), 0)

\* Buffer.from([ ...buffer, this.calculateChecksum(buffer) ])
prepareBufferForSending(buffer) == Append(buffer, calculateChecksum(buffer))

(***************************************************************************)
(* JavaScript values that travel as rejection reasons.  `===` is strict:   *)
(* a Buffer, a string or an Error never equals a number.                   *)
(***************************************************************************)
\* msg is a sequence of strings: the parts of a template literal
JsBuffer(b) == [type |-> "Buffer", num |-> 0, bytes |-> b, msg |-> <<>>]
JsString(s) == [type |-> "string", num |-> 0, bytes |-> <<>>, msg |-> s]
JsError(m) == [type |-> "Error", num |-> 0, bytes |-> <<>>, msg |-> m]
JsUndefined == [type |-> "undefined", num |-> 0, bytes |-> <<>>, msg |-> <<>>]

StrictEqualsNumber(exc, n) == exc.type = "number" /\ exc.num = n

\* the errors the serial port reports
PortError == JsError(<< "port error" >>)
DrainError == JsError(<< "drain error" >>)

(***************************************************************************)
(* Inputs of the driver operations, drawn from small sets                  *)
(***************************************************************************)
\* spcProgram: two 64KB images
SpcImages == {1}
SpcByte(img, a) == IF img = 1 THEN (a * 7 + 3) % 256 ELSE (a + (a \div 256)) % 256

\* spcProgram.copy(buffer, 0, from, to) into Buffer.alloc(size)
CopyRange(img, from, to, size) ==
  [k \in 1..size |->
     IF from + k - 1 < Min(to, SPC_RAM_SIZE) THEN SpcByte(img, from + k - 1) ELSE 0]

\* dspLoader: two patched DSP stubs (28 bytes)
DspLoaderInputs == {1, 2}
DspLoaderInput(n) ==
  << 196, 242, 100, 244, 208, 252, 250, 245, 243, 196, 244, 188, 16, 242,
     143, n * 17, 252, 143, n * 3, 251, 143, n, 250,
     205, 200 + n, 189, 47, 171 >>

\* dspRegisters: two register banks (128 bytes)
DspRegisterInputs == {1, 2}
DspRegisterInput(n) == [k \in 1..DSP_REGISTER_COUNT |-> (k * n + 5) % 256]

\* play(bootLoaderAddress, portValues)
PlayInputs == {1, 2}
PlayAddress(n) == IF n = 1 THEN 65424 ELSE 4660
PlayPorts(n) == IF n = 1 THEN << 0, 0, 0, 0 >> ELSE << 1, 2, 3, 255 >>

OpKinds == {"reset", "initDsp", "loadSPC", "play"}
OpArgs(kind) ==
  CASE kind = "reset" -> {0}
    [] kind = "initDsp" -> {1, 2}
    [] kind = "loadSPC" -> SpcImages
    [] kind = "play" -> PlayInputs

(***************************************************************************)
(* State                                                                   *)
(***************************************************************************)
VARIABLES
  portState,      \* "closed" | "opening" | "open"  (port.isOpen iff "open")
  openP,          \* the promise of open(): "none" | "pending" | "resolved" | "rejected"
  dataL,          \* listeners of the port's 'data' event, in registration order
  errL,           \* listeners of the port's 'error' event, in registration order
  calls,          \* writeAndWait calls: id -> record
  ops,            \* driver operations invoked by the caller: id -> record
  drainQ,         \* calls with a port.drain callback outstanding, in registration order
  invocations,    \* operations invoked so far
  faulted,        \* some operation has failed
  crashed,        \* an 'error' event with no listener ended the process
  callerAwaits,   \* the caller awaits each operation before invoking the next
  responses,      \* 'data' events delivered to a caller that does not await
  lastDataSettled,\* the pending calls the last 'data' event completed
  closedMidWait,  \* the stream closed while a call waited for its acknowledgement
  errBeforeReady  \* the port reported an error before READY was observed

driverVars == << portState, openP, dataL, errL, calls, ops, drainQ, invocations,
                 faulted, crashed, callerAwaits, responses, lastDataSettled,
                 closedMidWait, errBeforeReady >>

\* The composer (SpcWriter)
VARIABLES
  file,            \* the SPC file named to load(): the snapshot SpcReader returns
  writerState,     \* "new" | "loaded" | "failed": how the last load() ended
  writerError,     \* the message of the error the last load() or play() threw, or "none"
  stackPointer,    \* this.stackPointer
  bootLoaderOffset,\* this.bootLoaderOffset
  bootLoader,      \* this.bootLoader (<< >> while undefined)
  dspLoader,       \* this.dspLoader (<< >> while undefined)
  finalImage,      \* the bytes play() wrote over its copy of programData
  played,          \* play() ran to its end
  loads,           \* calls of load() so far
  programs         \* the Buffers BootLoader and DspLoader that ./programs exports

writerVars == << file, writerState, writerError, stackPointer, bootLoaderOffset,
                 bootLoader, dspLoader, finalImage, played, loads, programs >>

\* The frame codec (calculateChecksum, prepareBufferForSending) applied to a buffer
VARIABLES
  payload,         \* the buffer handed to the codec
  codecPc,         \* "idle" | "input" | "summed" | "prepared" | "rechecked" | "framed"
  checksum,        \* calculateChecksum(payload)
  prepared,        \* prepareBufferForSending(payload)
  preparedChecksum,\* calculateChecksum(prepared)
  command          \* [ opcode, ...prepareBufferForSending(payload) ]

codecVars == << payload, codecPc, checksum, prepared, preparedChecksum, command >>

vars == << driverVars, writerVars, codecVars >>

(***************************************************************************)
(* Helpers on the driver's state                                           *)
(***************************************************************************)
FreshId(f) == CHOOSE i \in 1..(Cardinality(DOMAIN f) + 1) :
                 /\ i \notin DOMAIN f
                 /\ \A j \in 1..(i - 1) : j \in DOMAIN f

Restrict(f, S) == [x \in S |-> f[x]]

Range(s) == {s[i] : i \in 1..Len(s)}

\* the calls whose temporary handler is registered on 'data'
ListeningIn(listeners) == {l.call : l \in {m \in Range(listeners) : m.h = "waw"}}

Listening == ListeningIn(dataL)

Running == {o \in DOMAIN ops : ops[o].status = "running"}

Pending == {c \in DOMAIN calls : calls[c].state = "pending"}

Draining == Range(drainQ)

\* a finished call nothing refers to any more is dropped from the state
Collectible(c) ==
  /\ calls[c].state # "pending"
  /\ c \notin Draining
  /\ c \notin Listening
  /\ c \notin Range(errL)

LiveCalls == Restrict(calls, {c \in DOMAIN calls : ~Collectible(c)})

\* the bytes of its frame that a call has not handed to port.write yet
Unsent(call) == Len(call.buffer) - call.offset

\* Once a call has settled, nothing reads its fields again but writeBuffer,
\* which goes on writing the rest of the frame: only the length of that rest
\* is kept.
Forget(call) ==
  [call EXCEPT !.op = 0, !.kind = "settled", !.addr = 0, !.offset = 0,
               !.buffer = [i \in 1..Unsent(call) |-> 0], !.written = << >>]

(***************************************************************************)
(* The part of the state that promise continuations change.  Continuations *)
(* are functions from such a record to the next one; mq is the microtask   *)
(* queue, which is empty again when the I/O callback or the caller's code  *)
(* that filled it has returned.                                            *)
(***************************************************************************)
Cur == [ calls |-> LiveCalls, dataL |-> dataL, errL |-> errL, ops |-> ops,
         drainQ |-> drainQ, faulted |-> faulted, mq |-> << >> ]

\* the settled calls whose writeBuffer is still at work
StaleWrites(st) == Cardinality({c \in Range(st.drainQ) : st.calls[c].state # "pending"})

Commit(st) ==
  /\ calls' = [c \in DOMAIN st.calls |->
                 IF st.calls[c].state # "pending"
                 THEN Forget(st.calls[c]) ELSE st.calls[c]]
  /\ dataL' = st.dataL
  /\ errL' = st.errL
  /\ ops' = st.ops
  /\ drainQ' = st.drainQ
  /\ faulted' = st.faulted

(***************************************************************************)
(* writeBuffer(buffer, offset): the size of the next slice                 *)
(***************************************************************************)
\* a writeBuffer that sends all that is left in one write
SliceSizeWhole(buffer, offset) == Len(buffer) - offset

SliceSize(buffer, offset) ==
  IF Len(buffer) - offset > MAX_SEND_SIZE THEN MAX_SEND_SIZE ELSE Len(buffer) - offset

\* buffer.copy(sendBuffer, 0, offset, offset + chunkSize): what port.write is given
SendBuffer(buffer, offset) ==
  SubSeq(buffer, offset + 1, offset + SliceSize(buffer, offset))

(***************************************************************************)
(* writeAndWait(buffer): the promise executor.  It rejects when the port   *)
(* is not open and goes on: it registers both listeners and hands the      *)
(* first slice to port.write, then port.drain.                             *)
(***************************************************************************)
NotOpenReason == JsString(<< "Port has not been opened" >>)

PortIsOpen == portState = "open"

NewCall(o, kind, addr, buffer) ==
  [ op |-> o, kind |-> kind, addr |-> addr, buffer |-> buffer,
    offset |-> SliceSize(buffer, 0),
    written |-> << SendBuffer(buffer, 0) >>,
    state |-> IF PortIsOpen THEN "pending" ELSE "rejected",
    payload |-> IF PortIsOpen THEN JsUndefined ELSE NotOpenReason,
    first |-> [ev |-> IF PortIsOpen THEN "none" ELSE "notOpen", byte |-> 0] ]

writeAndWait(st, o, kind, addr, buffer) ==
  LET c == FreshId(st.calls) IN
  [st EXCEPT
     !.calls = @ @@ (c :> NewCall(o, kind, addr, buffer)),
     !.dataL = Append(@, [h |-> "waw", call |-> c]),
     !.errL = Append(@, c),
     !.drainQ = Append(@, c),
     !.mq = IF PortIsOpen THEN @ ELSE Append(@, [op |-> o, ok |-> FALSE, exc |-> NotOpenReason]),
     \* history: what the operation has sent, and whether after a rejection
     !.ops[o].started = @ + 1,
     !.ops[o].sentAfterRejection = (@ \/ st.ops[o].sawRejection),
     !.ops[o].sawRejection = (@ \/ ~PortIsOpen)]

(***************************************************************************)
(* The frames of the operations                                            *)
(***************************************************************************)
ResetFrame == << CMD_RESET >>

DspLoaderFrame(arg) == << CMD_LOAD_DSP >> \o prepareBufferForSending(DspLoaderInput(arg))

\* a register frame that repeats the opcode of the loader frame
DspRegistersFrameWithOpcode(arg) ==
  << CMD_LOAD_DSP >> \o prepareBufferForSending(DspRegisterInput(arg))

DspRegistersFrame(arg) == prepareBufferForSending(DspRegisterInput(arg))

\* a zero-page frame that copies from address 0
ZeroPageFrameFromZero(img) ==
  << CMD_START_SPC >> \o prepareBufferForSending(CopyRange(img, 0, 237, ZERO_PAGE_SIZE))

ZeroPageFrame(img) ==
  << CMD_START_SPC >> \o prepareBufferForSending(CopyRange(img, 2, 239, ZERO_PAGE_SIZE))

\* a chunk header that carries the high byte of the address first
ChunkHeaderFrameHighFirst(addr, length) ==
  << CMD_SPC_CHUNK >> \o
    prepareBufferForSending(<< (addr \div 256) % 256, addr % 256, length % 256 >>)

ChunkHeaderFrame(addr, length) ==
  << CMD_SPC_CHUNK >> \o
    prepareBufferForSending(<< addr % 256, (addr \div 256) % 256, length % 256 >>)

ChunkBuffer(img, addr) == CopyRange(img, addr, addr + SPC_CHUNK_SIZE, SPC_CHUNK_SIZE)

ChunkBodyFrame(img, addr) == prepareBufferForSending(ChunkBuffer(img, addr))

PlayFrame(arg) ==
  << CMD_PLAY >> \o
    prepareBufferForSending(<< PlayAddress(arg) % 256, (PlayAddress(arg) \div 256) % 256 >>
                            \o PlayPorts(arg))

FirstFrame(kind, arg) ==
  CASE kind = "reset" -> ResetFrame
    [] kind = "initDsp" -> DspLoaderFrame(arg)
    [] kind = "loadSPC" -> ZeroPageFrame(arg)
    [] kind = "play" -> PlayFrame(arg)

FirstPc(kind) ==
  CASE kind = "reset" -> "reset"
    [] kind = "initDsp" -> "loader"
    [] kind = "loadSPC" -> "zeropage"
    [] kind = "play" -> "play"

(***************************************************************************)
(* The operations' continuations after an awaited writeAndWait settled     *)
(***************************************************************************)
\* catch (exc) of initDsp and loadSPC
ChecksumErrorMsg(exc) ==
  IF StrictEqualsNumber(exc, RSP_BAD_CHECKSUM) THEN "Failed checksum" ELSE "Unknown error"

\* while (currentAddress < 0xFFFF)
LoopContinues(currentAddress) == currentAddress < BODY_LIMIT

\* a loop that steps over every other window
NextAddressSkipping(currentAddress) == currentAddress + 2 * SPC_CHUNK_SIZE

\* currentAddress += SPC_CHUNK_SIZE
NextAddress(currentAddress) == currentAddress + SPC_CHUNK_SIZE

\* the operation's promise settles and its locals are gone; the history of a
\* failed operation is dropped with them, but for the reason its catch was given
Settle(st, o, status, error, cause) ==
  [st EXCEPT
     !.ops[o] = IF status = "resolved"
                THEN [@ EXCEPT !.status = status, !.arg = 0, !.currentAddress = 0]
                ELSE [@ EXCEPT !.status = status, !.error = error, !.cause = cause,
                               !.arg = 0, !.currentAddress = 0,
                               !.started = 0, !.acked = 0,
                               !.chunks = 0, !.lo = 0, !.hi = 0],
     !.faulted = (@ \/ status = "rejected")]

\* the operation sends its next frame and awaits it
SendNext(st, o, pc, addr, buffer) ==
  writeAndWait([st EXCEPT !.ops[o].pc = pc, !.ops[o].currentAddress = addr],
               o, pc, addr, buffer)

\* reset(): try { await writeAndWait } catch { throw new Error('Error resetting SPC') }
ResetContinue(st, o, m) ==
  IF m.ok THEN Settle(st, o, "resolved", JsUndefined, JsUndefined)
  ELSE Settle(st, o, "rejected", JsError(<< "Error resetting SPC" >>), m.exc)

\* initDsp(): after the loader frame, the register frame; after it, done
InitDspContinue(st, o, m) ==
  IF ~m.ok
  THEN Settle(st, o, "rejected",
              JsError(<< "Error initializing DSP", ChecksumErrorMsg(m.exc) >>), m.exc)
  ELSE IF st.ops[o].pc = "loader"
  THEN SendNext(st, o, "registers", 0, DspRegistersFrame(st.ops[o].arg))
  ELSE Settle(st, o, "resolved", JsUndefined, JsUndefined)

\* writeSpcChunk(addr, buffer): the header frame.  History: the window
\* [addr, addr + buffer.byteLength) joins the windows sent so far.
SendChunkHeader(st, o, addr) ==
  LET length == Len(ChunkBuffer(st.ops[o].arg, addr))
      op == st.ops[o]
      st1 == [st EXCEPT
                !.ops[o].gapless = (@ /\ (op.chunks = 0 \/ addr = op.hi)),
                !.ops[o].lo = IF op.chunks = 0 THEN addr ELSE @,
                !.ops[o].hi = addr + length,
                !.ops[o].chunks = @ + 1]
  IN SendNext(st1, o, "hdr", addr, ChunkHeaderFrame(addr, length))

\* the head of loadSPC's while loop, at address addr
LoadLoop(st, o, addr) ==
  IF LoopContinues(addr) THEN SendChunkHeader(st, o, addr)
  ELSE Settle(st, o, "resolved", JsUndefined, JsUndefined)

\* a loadSPC whose chunk loop goes on after a rejected frame
LoadSpcContinueIgnoringFailure(st, o, m) ==
  CASE st.ops[o].pc = "zeropage" ->
         IF m.ok THEN LoadLoop(st, o, BODY_START)
         ELSE Settle(st, o, "rejected",
                     JsError(<< "Error loading SPC data", ChecksumErrorMsg(m.exc) >>), m.exc)
    [] st.ops[o].pc = "hdr" ->
         SendNext(st, o, "body", st.ops[o].currentAddress,
                  ChunkBodyFrame(st.ops[o].arg, st.ops[o].currentAddress))
    [] st.ops[o].pc = "body" -> LoadLoop(st, o, NextAddress(st.ops[o].currentAddress))

\* loadSPC() and the writeSpcChunk() it awaits.  writeSpcChunk wraps a
\* rejection in an Error, so loadSPC's catch never sees the response itself.
LoadSpcContinue(st, o, m) ==
  IF ~m.ok
  THEN LET \* the text of the reason that writeSpcChunk appends is left out
           exc == IF st.ops[o].pc = "zeropage" THEN m.exc
                  ELSE JsError(<< "Error writing SPC data chunk" >>)
       IN Settle(st, o, "rejected",
                 JsError(<< "Error loading SPC data", ChecksumErrorMsg(exc) >>), m.exc)
  ELSE CASE st.ops[o].pc = "zeropage" -> LoadLoop(st, o, BODY_START)
         [] st.ops[o].pc = "hdr" ->
              SendNext(st, o, "body", st.ops[o].currentAddress,
                       ChunkBodyFrame(st.ops[o].arg, st.ops[o].currentAddress))
         [] st.ops[o].pc = "body" -> LoadLoop(st, o, NextAddress(st.ops[o].currentAddress))

\* play(): no try/catch, the rejection reason passes through
PlayContinue(st, o, m) ==
  IF m.ok THEN Settle(st, o, "resolved", JsUndefined, JsUndefined) ELSE Settle(st, o, "rejected", m.exc, m.exc)

Continue(st, m) ==
  CASE st.ops[m.op].kind = "reset" -> ResetContinue(st, m.op, m)
    [] st.ops[m.op].kind = "initDsp" -> InitDspContinue(st, m.op, m)
    [] st.ops[m.op].kind = "loadSPC" -> LoadSpcContinue(st, m.op, m)
    [] st.ops[m.op].kind = "play" -> PlayContinue(st, m.op, m)

\* the microtask queue is run until it is empty
RECURSIVE RunMicrotasks(_)
RunMicrotasks(st) ==
  IF st.mq = << >> THEN st
  ELSE RunMicrotasks(Continue([st EXCEPT !.mq = Tail(@)], Head(st.mq)))

(***************************************************************************)
(* Init                                                                    *)
(***************************************************************************)
DriverInit ==
  /\ portState = "closed"
  /\ openP = "none"
  /\ dataL = << >>
  /\ errL = << >>
  /\ calls = << >>
  /\ ops = << >>
  /\ drainQ = << >>
  /\ invocations = 0
  /\ faulted = FALSE
  /\ crashed = FALSE
  /\ callerAwaits \in BOOLEAN
  /\ responses = 0
  /\ lastDataSettled = 0
  /\ closedMidWait = FALSE
  /\ errBeforeReady = FALSE

(***************************************************************************)
(* open()                                                                  *)
(***************************************************************************)
OpenListener == [h |-> "open", call |-> 0]

\* the caller opens the driver once: open() registers its listener on 'data'
\* and starts opening the port
OpenInvoke ==
  /\ ~crashed
  /\ openP = "none"
  /\ portState = "closed"
  /\ callerAwaits => Running = {}
  /\ dataL' = Append(dataL, OpenListener)
  /\ portState' = "opening"
  /\ openP' = "pending"
  /\ calls' = LiveCalls
  /\ UNCHANGED << errL, ops, drainQ, invocations, faulted, crashed, callerAwaits,
                  responses, lastDataSettled, closedMidWait, errBeforeReady >>
  /\ UNCHANGED << writerVars, codecVars >>

\* this.port.open(err => err ? reject(err) : null)
OpenCallback(err) ==
  /\ ~crashed
  /\ portState = "opening"
  /\ portState' = IF err THEN "closed" ELSE "open"
  /\ openP' = IF err /\ openP = "pending" THEN "rejected" ELSE openP
  /\ errBeforeReady' = (errBeforeReady \/ (err /\ openP = "pending"))
  /\ calls' = LiveCalls
  /\ UNCHANGED << dataL, errL, ops, drainQ, invocations, faulted, crashed,
                  callerAwaits, responses, lastDataSettled, closedMidWait >>
  /\ UNCHANGED << writerVars, codecVars >>

(***************************************************************************)
(* The caller invokes reset(), initDsp(), loadSPC() or play(): the async   *)
(* function runs synchronously up to its first await.                      *)
(***************************************************************************)
NewOp(kind, arg) ==
  [ kind |-> kind, arg |-> arg, pc |-> FirstPc(kind), currentAddress |-> 0,
    status |-> "running", error |-> JsUndefined,
    \* history
    cause |-> JsUndefined,
    afterFault |-> faulted, started |-> 0, acked |-> 0,
    sawRejection |-> FALSE, sentAfterRejection |-> FALSE,
    chunks |-> 0, lo |-> 0, hi |-> 0, gapless |-> TRUE ]

Invoke(kind, arg) ==
  /\ ~crashed
  /\ invocations < MaxInvocations
  /\ IF callerAwaits THEN Running = {} /\ openP # "pending"
     ELSE Cardinality(Running) < MaxInFlight
  /\ LET keep == Restrict(ops, Running)
         o == FreshId(keep)
         st == [Cur EXCEPT !.ops = keep @@ (o :> NewOp(kind, arg))]
         started == writeAndWait(st, o, FirstPc(kind), 0, FirstFrame(kind, arg))
     IN /\ StaleWrites(started) <= MaxStaleWrites
        /\ Commit(RunMicrotasks(started))
  /\ invocations' = invocations + 1
  /\ UNCHANGED << portState, openP, crashed, callerAwaits, responses,
                  lastDataSettled, closedMidWait, errBeforeReady >>
  /\ UNCHANGED << writerVars, codecVars >>

(***************************************************************************)
(* I/O callbacks                                                           *)
(***************************************************************************)
\* a handler that takes only FAIL for a failure
AckOutcomeOnlyFail(byte) == IF byte = RSP_FAIL THEN "rejected" ELSE "resolved"

\* handleDataEvent of writeAndWait: data[0] !== RSP_OKAY ? reject(data) : resolve(data)
AckOutcome(byte) == IF byte # RSP_OKAY THEN "rejected" ELSE "resolved"

\* handleDataEvent of open(): data[0] === RSP_READY
IsReady(byte) == byte = RSP_READY

\* this.port.off('data', handleDataEvent) / this.port.off('error', reject)
RemoveData(listeners, S) == SelectSeq(listeners, LAMBDA l : ~(l.h = "waw" /\ l.call \in S))
RemoveErr(listeners, S) == SelectSeq(listeners, LAMBDA c : c \notin S)

\* the continuations queued when the calls of `settled` settle, in listener order
Continuations(order, settled, ok, exc) ==
  LET hit == SelectSeq(order, LAMBDA c : c \in settled)
  IN [i \in 1..Len(hit) |-> [op |-> calls[hit[i]].op, ok |-> ok, exc |-> exc]]

\* history: the operations of the calls in `hit` saw an acknowledgement or a rejection
Mark(opsNow, hit, okay) ==
  [o \in DOMAIN opsNow |->
     IF \E c \in hit : calls[c].op = o
     THEN IF okay THEN [opsNow[o] EXCEPT !.acked = @ + 1]
          ELSE [opsNow[o] EXCEPT !.sawRejection = TRUE]
     ELSE opsNow[o]]

DataBytes == {RSP_OKAY, RSP_FAIL, RSP_BAD_CHECKSUM, RSP_READY}

\* the port emits 'data' with a buffer whose first byte is `byte`: every
\* registered listener runs
DataEvent(byte) ==
  /\ ~crashed
  /\ portState = "open"
  /\ callerAwaits \/ responses < MaxOverlapResponses
  /\ LET heard == Listening
         settled == heard \cap Pending
         order == [i \in 1..Len(dataL) |-> dataL[i].call]
         st == [Cur EXCEPT
                  !.calls = [c \in DOMAIN @ |->
                               IF c \in settled
                               THEN [@[c] EXCEPT !.state = AckOutcome(byte),
                                                 !.payload = JsBuffer(<< byte >>),
                                                 !.first = [ev |-> "data", byte |-> byte]]
                               ELSE @[c]],
                  !.dataL = RemoveData(@, heard),
                  !.errL = RemoveErr(@, heard),
                  !.ops = Mark(@, settled, byte = RSP_OKAY),
                  !.mq = Continuations(order, settled, AckOutcome(byte) = "resolved",
                                       JsBuffer(<< byte >>))]
     IN /\ StaleWrites(st) <= MaxStaleWrites
        /\ \A c \in settled : Unsent(calls[c]) <= MaxUnsentAtResponse
        /\ lastDataSettled' = Cardinality(settled)
        /\ Commit(RunMicrotasks(st))
  /\ openP' = IF openP = "pending" /\ OpenListener \in Range(dataL) /\ IsReady(byte)
              THEN "resolved" ELSE openP
  /\ responses' = IF callerAwaits THEN responses ELSE responses + 1
  /\ UNCHANGED << portState, invocations, crashed, callerAwaits, closedMidWait,
                  errBeforeReady >>
  /\ UNCHANGED << writerVars, codecVars >>

\* the port emits 'error': every registered reject runs and stays registered;
\* with no listener Node throws the error and the process ends
ErrorEvent ==
  /\ ~crashed
  /\ portState \in {"opening", "open"}
  /\ LET settled == Range(errL) \cap Pending
         st == [Cur EXCEPT
                  !.calls = [c \in DOMAIN @ |->
                               IF c \in settled
                               THEN [@[c] EXCEPT !.state = "rejected",
                                                 !.payload = PortError,
                                                 !.first = [ev |-> "error", byte |-> 0]]
                               ELSE @[c]],
                  !.ops = Mark(@, settled, FALSE),
                  !.mq = Continuations(errL, settled, FALSE, PortError)]
     IN /\ StaleWrites(st) <= MaxStaleWrites
        /\ \A c \in settled : Unsent(calls[c]) <= MaxUnsentAtResponse
        /\ Commit(RunMicrotasks(st))
  /\ crashed' = (errL = << >>)
  /\ errBeforeReady' = (errBeforeReady \/ openP = "pending")
  /\ UNCHANGED << portState, openP, invocations, callerAwaits, responses,
                  lastDataSettled, closedMidWait >>
  /\ UNCHANGED << writerVars, codecVars >>

\* the callback of the oldest outstanding port.drain (writeBuffer)
DrainCallback(err) ==
  /\ ~crashed
  /\ drainQ # << >>
  /\ LET c == Head(drainQ)
         call == calls[c]
         rest == [Cur EXCEPT !.drainQ = Tail(@)]
     IN IF err
        THEN \* reject(err) of writeBuffer, then the catch of writeAndWait
             Commit(RunMicrotasks(
               [rest EXCEPT
                  !.calls[c] = IF call.state = "pending"
                               THEN [@ EXCEPT !.state = "rejected", !.payload = DrainError,
                                              !.first = [ev |-> "drain", byte |-> 0]]
                               ELSE @,
                  !.dataL = RemoveData(@, {c}),
                  !.errL = RemoveErr(@, {c}),
                  !.ops = IF call.state = "pending" THEN Mark(@, {c}, FALSE) ELSE @,
                  !.mq = IF call.state = "pending"
                         THEN << [op |-> call.op, ok |-> FALSE, exc |-> DrainError] >>
                         ELSE << >>]))
        ELSE IF call.offset < Len(call.buffer)
        THEN \* resolve(this.writeBuffer(buffer, offset)): the next slice, the next drain
             Commit([rest EXCEPT
                       !.calls[c].offset = @ + SliceSize(call.buffer, call.offset),
                       !.calls[c].written =
                          IF call.state = "pending"
                          THEN Append(@, SendBuffer(call.buffer, call.offset))
                          ELSE @,
                       !.drainQ = Append(@, c)])
        ELSE Commit(rest)
  /\ UNCHANGED << portState, openP, invocations, crashed, callerAwaits, responses,
                  lastDataSettled, closedMidWait, errBeforeReady >>
  /\ UNCHANGED << writerVars, codecVars >>

\* the byte stream closes: the port emits 'close', which nothing listens to
Close ==
  /\ ~crashed
  /\ portState = "open"
  /\ portState' = "closed"
  /\ closedMidWait' = (closedMidWait \/ Pending # {})
  /\ calls' = LiveCalls
  /\ UNCHANGED << openP, dataL, errL, ops, drainQ, invocations, faulted, crashed,
                  callerAwaits, responses, lastDataSettled, errBeforeReady >>
  /\ UNCHANGED << writerVars, codecVars >>

(***************************************************************************)
(* The composer: SpcWriter                                                 *)
(***************************************************************************)
LOWEST_BOOTABLE_ADDRESS == 256
HIGHEST_BOOTABLE_ADDRESS == 65471

\* the program templates; a null of the source array is stored as 0
DspLoader ==
  << 196, 242, 100, 244, 208, 252, 250, 245, 243, 196, 244, 188, 16, 242,
     143, 0, 252, 143, 0, 251, 143, 0, 250, 205, 0, 189, 47, 171 >>

BootLoader ==
  << 143, 0, 0, 143, 0, 1, 143, 176, 241, 205, 83, 216, 244,
     228, 244, 104, 0, 208, 250, 228, 247, 104, 0, 208, 250,
     143, 0, 241, 143, 108, 242, 143, 0, 243, 143, 76, 242, 143, 0, 243,
     143, 0, 242, 174, 206, 238, 127 >>

\* The snapshots SpcReader returns.  The program memory of a snapshot is a
\* pattern without equal bytes 47 apart, overlaid with runs of one repeated
\* byte; the echo registers and the stack pointer are drawn from small sets.
ImageInputs == 1..7
EchoStarts == {0, 255}
EchoDelays == {0, 1}
StackPointers == {239, 3, 6, 255}

Runs(image) ==
  CASE image = 1 -> << >>
    [] image = 2 -> << [start |-> 65280, len |-> 192, fill |-> 170] >>
    [] image = 3 -> << [start |-> 63488, len |-> 48, fill |-> 255] >>
    [] image = 4 -> << [start |-> 57344, len |-> 256, fill |-> 0],
                       [start |-> 61440, len |-> 64, fill |-> 255] >>
    [] image = 5 -> << [start |-> 256, len |-> 48, fill |-> 0] >>
    [] image = 6 -> << [start |-> 244, len |-> 4, fill |-> 0],
                       [start |-> 65280, len |-> 192, fill |-> 170] >>
    [] image = 7 -> << [start |-> 448, len |-> 64, fill |-> 0] >>

Snapshot(n, esa, edl, sp) ==
  [image |-> n, runs |-> Runs(n), esa |-> esa, edl |-> edl, regSP |-> sp]

\* the echo registers and the stack pointer vary on the images with a run in
\* the upper memory
VariedImages == {2, 3, 4}

Snapshots ==
  { Snapshot(n, esa, edl, sp) :
      n \in VariedImages, esa \in EchoStarts, edl \in EchoDelays, sp \in StackPointers }
  \cup { Snapshot(n, 0, 0, 239) : n \in ImageInputs }

InRun(run, a) == run.start <= a /\ a < run.start + run.len

\* spc.programData[a]
programData(spc, a) ==
  LET runs == spc.runs
  IN IF Len(runs) >= 1 /\ InRun(runs[1], a) THEN runs[1].fill
     ELSE IF Len(runs) >= 2 /\ InRun(runs[2], a) THEN runs[2].fill
     ELSE (a * 5 + 1) % 256

\* spc.dspRegisters[r]
dspRegisters(spc, r) ==
  CASE r = 109 -> spc.esa
    [] r = 125 -> spc.edl
    [] OTHER -> (r * 3 + 1) % 256

regA(spc) == 17 * spc.image
regX(spc) == 34
regY(spc) == 51
regPSW(spc) == 2
regPC(spc) == 1024 + 257 * spc.image

\* one pass of the loop of findBootLoaderAddress: the byte at i equals the
\* byte at the start of the chunk, and every byte of the chunk
IsBlankBelow(spc, i, bootLoaderSize) ==
  /\ programData(spc, i) = programData(spc, i - bootLoaderSize)
  /\ \A j \in (i - bootLoaderSize)..(i - 1) : programData(spc, i) = programData(spc, j)

\* the result of the upper part of the scan unless it found nothing
FirstFound(upper, lower) == IF upper # -1 THEN upper ELSE lower

\* for (i = hi; i >= lo; i--): the first i that passes, or -1
RECURSIVE ScanDown(_, _, _, _)
ScanDown(spc, lo, hi, bootLoaderSize) ==
  IF lo > hi THEN -1
  ELSE IF lo = hi THEN (IF IsBlankBelow(spc, hi, bootLoaderSize) THEN hi ELSE -1)
  ELSE FirstFound(ScanDown(spc, ((lo + hi) \div 2) + 1, hi, bootLoaderSize),
                  ScanDown(spc, lo, (lo + hi) \div 2, bootLoaderSize))

findBootLoaderAddress(spc) ==
  LET bootLoaderSize == Len(BootLoader)
      i == ScanDown(spc, LOWEST_BOOTABLE_ADDRESS + bootLoaderSize + 1,
                    HIGHEST_BOOTABLE_ADDRESS, bootLoaderSize)
  IN IF i = -1 THEN -1 ELSE i - bootLoaderSize

\* buffer[index] = value on a Buffer: the value is stored modulo 256, an index
\* outside the buffer is ignored
SetByte(buffer, index, value) ==
  IF index \in 0..(Len(buffer) - 1) THEN [buffer EXCEPT ![index + 1] = value % 256]
  ELSE buffer

\* value & 0xCF on a byte: bits 4 and 5 are cleared
And0xCF(value) == ((value \div 64) * 64) + (value % 16)

\* writeBootLoader(), after the address was found
PatchedBootLoader(spc) ==
  LET b1 == SetByte(programs.BootLoader, 1, programData(spc, 0))
      b2 == SetByte(b1, 4, programData(spc, 1))
      b3 == SetByte(b2, 16, programData(spc, 244))
      b4 == SetByte(b3, 22, programData(spc, 247))
      b5 == SetByte(b4, 26, And0xCF(programData(spc, 241)))
      b6 == SetByte(b5, 32, dspRegisters(spc, 108))
      b7 == SetByte(b6, 38, dspRegisters(spc, 71))
  IN SetByte(b7, 41, programData(spc, 242))

\* writeDspLoader()
PatchedDspLoader(spc, sp) ==
  LET d1 == SetByte(programs.DspLoader, 15, programData(spc, 252))
      d2 == SetByte(d1, 18, programData(spc, 251))
      d3 == SetByte(d2, 21, programData(spc, 250))
  IN SetByte(d3, 24, sp)

\* programData[index] = value on play()'s copy of the program memory: the
\* bytes written so far, by address
WriteImage(image, index, value) ==
  IF index \in 0..(SPC_RAM_SIZE - 1)
  THEN [a \in DOMAIN image \cup {index} |-> IF a = index THEN value % 256 ELSE image[a]]
  ELSE image

\* source.copy(image, targetStart)
CopyInto(image, source, targetStart) ==
  LET target == {a \in targetStart..(targetStart + Len(source) - 1) : a < SPC_RAM_SIZE}
  IN [a \in DOMAIN image \cup target |->
        IF a \in target THEN source[a - targetStart + 1] ELSE image[a]]

\* a play() that writes the return frame without the base of the stack page
FinalImageInZeroPage(spc, loader, offset, sp) ==
  LET p0 == CopyInto(<< >>, loader, offset)
      p1 == WriteImage(p0, 255, sp)
      p2 == WriteImage(p1, sp + 1, regA(spc))
      p3 == WriteImage(p2, sp + 2, regX(spc))
      p4 == WriteImage(p3, sp + 3, regY(spc))
      p5 == WriteImage(p4, sp + 4, regPSW(spc))
      p6 == WriteImage(p5, sp + 5, regPC(spc) % 256)
  IN WriteImage(p6, sp + 6, regPC(spc) \div 256)

\* the body of play(): the boot loader, the stack pointer and the return frame
FinalImage(spc, loader, offset, sp) ==
  LET p0 == CopyInto(<< >>, loader, offset)
      p1 == WriteImage(p0, 255, sp)
      p2 == WriteImage(p1, 256 + sp + 1, regA(spc))
      p3 == WriteImage(p2, 256 + sp + 2, regX(spc))
      p4 == WriteImage(p3, 256 + sp + 3, regY(spc))
      p5 == WriteImage(p4, 256 + sp + 4, regPSW(spc))
      p6 == WriteImage(p5, 256 + sp + 5, regPC(spc) % 256)
  IN WriteImage(p6, 256 + sp + 6, regPC(spc) \div 256)

MaxLoads == 2

WriterInit ==
  /\ file \in Snapshots
  /\ writerState = "new"
  /\ writerError = "none"
  /\ stackPointer = 0
  /\ bootLoaderOffset = 0
  /\ bootLoader = << >>
  /\ dspLoader = << >>
  /\ finalImage = << >>
  /\ played = FALSE
  /\ loads = 0
  /\ programs = [BootLoader |-> BootLoader, DspLoader |-> DspLoader]

\* a load() that patches the exported Buffers themselves and keeps them
LoadPatchingPrograms ==
  /\ loads < MaxLoads
  /\ loads' = loads + 1
  /\ stackPointer' = file.regSP - 6
  /\ bootLoaderOffset' = findBootLoaderAddress(file)
  /\ IF bootLoaderOffset' = -1
     THEN /\ writerState' = "failed"
          /\ writerError' = "Unable to find space to place boot loader"
          /\ UNCHANGED << bootLoader, dspLoader, programs >>
     ELSE /\ writerState' = "loaded"
          /\ writerError' = "none"
          /\ bootLoader' = PatchedBootLoader(file)
          /\ dspLoader' = PatchedDspLoader(file, stackPointer')
          /\ programs' = [BootLoader |-> bootLoader', DspLoader |-> dspLoader']
  /\ UNCHANGED << file, finalImage, played >>
  /\ UNCHANGED << driverVars, codecVars >>

\* a load() that falls back to the lowest bootable address when the search
\* finds no space
LoadWithFallback ==
  /\ loads < MaxLoads
  /\ loads' = loads + 1
  /\ stackPointer' = file.regSP - 6
  /\ bootLoaderOffset' = IF findBootLoaderAddress(file) = -1
                            THEN LOWEST_BOOTABLE_ADDRESS
                            ELSE findBootLoaderAddress(file)
  /\ writerState' = "loaded"
  /\ writerError' = "none"
  /\ bootLoader' = PatchedBootLoader(file)
  /\ dspLoader' = PatchedDspLoader(file, stackPointer')
  /\ UNCHANGED << file, finalImage, played, programs >>
  /\ UNCHANGED << driverVars, codecVars >>

\* load(spcFileName): a throw of writeBootLoader leaves the loaders as they were
Load ==
  /\ loads < MaxLoads
  /\ loads' = loads + 1
  /\ stackPointer' = file.regSP - 6
  /\ bootLoaderOffset' = findBootLoaderAddress(file)
  /\ IF bootLoaderOffset' = -1
     THEN /\ writerState' = "failed"
          /\ writerError' = "Unable to find space to place boot loader"
          /\ UNCHANGED << bootLoader, dspLoader >>
     ELSE /\ writerState' = "loaded"
          /\ writerError' = "none"
          /\ bootLoader' = PatchedBootLoader(file)
          /\ dspLoader' = PatchedDspLoader(file, stackPointer')
  /\ UNCHANGED << file, finalImage, played, programs >>
  /\ UNCHANGED << driverVars, codecVars >>

\* play(): without a snapshot or a boot loader it throws a TypeError, with a
\* negative offset Buffer.copy throws a RangeError
Play ==
  /\ ~played
  /\ IF writerState = "new" \/ bootLoader = << >>
     THEN writerError' = "TypeError" /\ UNCHANGED << finalImage, played >>
     ELSE IF bootLoaderOffset < 0
     THEN writerError' = "RangeError" /\ UNCHANGED << finalImage, played >>
     ELSE /\ finalImage' = FinalImage(file, bootLoader, bootLoaderOffset, stackPointer)
          /\ played' = TRUE
          /\ UNCHANGED writerError
  /\ UNCHANGED << file, writerState, stackPointer, bootLoaderOffset, bootLoader,
                  dspLoader, loads, programs >>
  /\ UNCHANGED << driverVars, codecVars >>

(***************************************************************************)
(* The frame codec as a state machine of its own: a buffer is summed,      *)
(* prepared for sending, summed again and framed under an opcode.          *)
(***************************************************************************)
MaxPayloadLen == 3
CodecBytes == {0, 1, 127, 128, 255}
Opcodes == {CMD_RESET, CMD_LOAD_DSP, CMD_START_SPC, CMD_SPC_CHUNK, CMD_PLAY}

\* short buffers over the bytes at the edges of the byte range, and the
\* buffers the driver prepares: DSP loader, DSP registers, zero page
CodecInputs ==
  UNION { [1..n -> CodecBytes] : n \in 0..MaxPayloadLen }
    \cup { DspLoaderInput(n) : n \in DspLoaderInputs }
    \cup { DspRegisterInput(n) : n \in DspRegisterInputs }
    \cup { CopyRange(img, 2, 239, ZERO_PAGE_SIZE) : img \in SpcImages }

CodecInit ==
  /\ payload \in CodecInputs
  /\ codecPc = "input"
  /\ checksum = 0
  /\ prepared = << >>
  /\ preparedChecksum = 0
  /\ command = << >>

CodecIdle ==
  /\ payload = << >>
  /\ codecPc = "idle"
  /\ checksum = 0
  /\ prepared = << >>
  /\ preparedChecksum = 0
  /\ command = << >>

CalculateChecksum ==
  /\ codecPc = "input"
  /\ checksum' = calculateChecksum(payload)
  /\ codecPc' = "summed"
  /\ UNCHANGED << payload, prepared, preparedChecksum, command >>
  /\ UNCHANGED << driverVars, writerVars >>

PrepareBufferForSending ==
  /\ codecPc = "summed"
  /\ prepared' = prepareBufferForSending(payload)
  /\ codecPc' = "prepared"
  /\ UNCHANGED << payload, checksum, preparedChecksum, command >>
  /\ UNCHANGED << driverVars, writerVars >>

ChecksumOfPrepared ==
  /\ codecPc = "prepared"
  /\ preparedChecksum' = calculateChecksum(prepared)
  /\ codecPc' = "rechecked"
  /\ UNCHANGED << payload, checksum, prepared, command >>
  /\ UNCHANGED << driverVars, writerVars >>

\* [ CMD, ...this.prepareBufferForSending(buffer) ]
FrameCommand(opcode) ==
  /\ codecPc = "rechecked"
  /\ command' = << opcode >> \o prepareBufferForSending(payload)
  /\ codecPc' = "framed"
  /\ UNCHANGED << payload, checksum, prepared, preparedChecksum >>
  /\ UNCHANGED << driverVars, writerVars >>

\* the composer at rest while the driver runs
WriterIdle ==
  /\ file = Snapshot(2, 0, 0, 239)
  /\ writerState = "new"
  /\ writerError = "none"
  /\ stackPointer = 0
  /\ bootLoaderOffset = 0
  /\ bootLoader = << >>
  /\ dspLoader = << >>
  /\ finalImage = << >>
  /\ played = FALSE
  /\ loads = 0
  /\ programs = [BootLoader |-> BootLoader, DspLoader |-> DspLoader]

\* the driver at rest while the composer runs
DriverIdle ==
  /\ portState = "closed"
  /\ openP = "none"
  /\ dataL = << >>
  /\ errL = << >>
  /\ calls = << >>
  /\ ops = << >>
  /\ drainQ = << >>
  /\ invocations = 0
  /\ faulted = FALSE
  /\ crashed = FALSE
  /\ callerAwaits = TRUE
  /\ responses = 0
  /\ lastDataSettled = 0
  /\ closedMidWait = FALSE
  /\ errBeforeReady = FALSE

WriterStart == WriterInit /\ DriverIdle /\ CodecIdle

WriterNext == Load \/ Play

WriterSpec == WriterStart /\ [][WriterNext]_vars

CodecStart == CodecInit /\ DriverIdle /\ WriterIdle

CodecNext ==
  \/ CalculateChecksum
  \/ PrepareBufferForSending
  \/ ChecksumOfPrepared
  \/ \E opcode \in Opcodes : FrameCommand(opcode)

ChecksumSpec == CodecStart /\ [][CodecNext]_vars

(***************************************************************************)
(* The driver's specification                                              *)
(***************************************************************************)
Init == DriverInit /\ WriterIdle /\ CodecIdle

Next ==
  \/ OpenInvoke
  \/ \E err \in BOOLEAN : OpenCallback(err)
  \/ \E kind \in OpKinds : \E arg \in OpArgs(kind) : Invoke(kind, arg)
  \/ \E byte \in DataBytes : DataEvent(byte)
  \/ ErrorEvent
  \/ \E err \in BOOLEAN : DrainCallback(err)
  \/ Close

Spec == Init /\ [][Next]_vars

(***************************************************************************)
(* Properties of the driver                                                *)
(***************************************************************************)
OpsOf(kind) == {o \in DOMAIN ops : ops[o].kind = kind}

\* C1: across any interleaving of the caller's invocations at most one frame
\* awaits its acknowledgement (so no byte of a new frame is written while an
\* earlier wait is pending), and a response 'data' event completes exactly one
\* pending request.
C1_SingleFlight == Cardinality(Pending) <= 1 /\ lastDataSettled <= 1

\* C2: a writeAndWait call resolves exactly when the first event it receives
\* is a response whose first byte is OKAY; any other first byte rejects it
\* with the response, a port 'error' event rejects it with that error, a
\* write/drain error rejects it with that error; it never resolves without OKAY.
C2_AckDecides ==
  \A c \in DOMAIN calls :
    LET call == calls[c] IN
    /\ call.state = "resolved" => call.first = [ev |-> "data", byte |-> RSP_OKAY]
    /\ call.first = [ev |-> "data", byte |-> RSP_OKAY] => call.state = "resolved"
    /\ (call.first.ev = "data" /\ call.first.byte # 1) =>
          call.state = "rejected" /\ call.payload = JsBuffer(<< call.first.byte >>)
    /\ call.first.ev = "error" => call.state = "rejected" /\ call.payload = PortError
    /\ call.first.ev = "drain" => call.state = "rejected" /\ call.payload = DrainError
    /\ call.first.ev = "none" <=> call.state = "pending"

C2_Witness ==
  \E c \in DOMAIN calls :
    /\ calls[c].first = [ev |-> "data", byte |-> RSP_BAD_CHECKSUM]
    /\ calls[c].state = "rejected"

\* C3: an initDsp whose frame the device answers with BAD_CHECKSUM (3) fails
\* with the message 'Failed checksum', not 'Unknown error'.
C3_ChecksumFailureReported ==
  \A o \in OpsOf("initDsp") :
    (ops[o].status = "rejected" /\ ops[o].cause = JsBuffer(<< 3 >>)) =>
       ops[o].error = JsError(<< "Error initializing DSP", "Failed checksum" >>)

\* C4: in loadSPC the first frame that is not acknowledged with OKAY (or a
\* transport error) aborts the whole load: no frame is sent after it, neither
\* the rejected one again nor a later one, and loadSPC fails.
C4_LoadAbortsOnFirstFailure ==
  \A o \in OpsOf("loadSPC") :
    /\ ~ops[o].sentAfterRejection
    /\ ops[o].sawRejection => ops[o].status = "rejected"
    /\ ops[o].status = "rejected" => ~\E c \in Pending : calls[c].op = o

C4_Witness ==
  \E o \in OpsOf("loadSPC") :
    /\ ops[o].status = "rejected"
    /\ ops[o].pc = "body"
    /\ ops[o].cause = JsBuffer(<< RSP_FAIL >>)

C6_CloseEndsWait == (closedMidWait /\ drainQ = << >>) => Pending = {}

\* C7: open() resolves only after a 'data' event whose first byte is READY,
\* and when the port reports an error before READY (a failed open or an
\* 'error' event) open() fails.
C7_OpenFailsOnError == errBeforeReady => openP = "rejected"

\* C8: initDsp sends [2, dspLoader..., checksum(dspLoader)] and, only after
\* that frame was acknowledged with OKAY, [dspRegisters..., checksum] without
\* an opcode; it succeeds only when both were acknowledged, and when the first
\* is rejected the register frame is never written.
C8_InitDspFrames ==
  /\ \A c \in Pending :
       LET call == calls[c]
           loader == DspLoaderInput(ops[call.op].arg)
           registers == DspRegisterInput(ops[call.op].arg)
       IN /\ call.kind = "loader" =>
               call.buffer = << 2 >> \o loader \o << calculateChecksum(loader) >>
          /\ call.kind = "registers" =>
               /\ Len(call.buffer) = 128 + 1
               /\ call.buffer = registers \o << calculateChecksum(registers) >>
  /\ \A o \in OpsOf("initDsp") :
       /\ ~ops[o].sentAfterRejection
       /\ (ops[o].status = "running" /\ ops[o].pc = "registers") =>
             ops[o].started = 2 /\ ops[o].acked >= 1
       /\ ops[o].status = "resolved" => ops[o].started = 2 /\ ops[o].acked = 2

C8_Witness ==
  \E o \in OpsOf("initDsp") : ops[o].status = "resolved" /\ ops[o].acked = 2

\* C9: once an operation has failed the driver is terminally Faulted: no
\* command invoked afterwards writes any byte.
C9_FaultedIsTerminal ==
  \A o \in DOMAIN ops : ops[o].afterFault => ops[o].started = 0

(***************************************************************************)
(* Properties of the composer                                              *)
(***************************************************************************)
echoAddress(spc) == dspRegisters(spc, 109) * 256

echoSize(spc) == dspRegisters(spc, 125) * 2048

\* C10: for every snapshot the window [offset, offset + stubLength) that
\* findBootLoaderAddress chooses has no address in common with the echo
\* buffer [echoAddress, echoAddress + echoSize), and running the search again
\* on the same image returns the same offset.
C10_StubAvoidsEcho ==
  writerState = "loaded" =>
    /\ bootLoaderOffset = findBootLoaderAddress(file)
    /\ \A a \in bootLoaderOffset..(bootLoaderOffset + Len(BootLoader) - 1) :
         ~(echoAddress(file) <= a /\ a < echoAddress(file) + echoSize(file))

\* C11: for a snapshot with SP >= 6 the finalization uses the stack pointer
\* SP - 6, and the finalized image holds A, X, Y, PSW, PC & 0xFF, PC >> 8, in
\* that order, at the addresses 0x100 + (SP - 6) + 1 .. + 6, and SP - 6 at
\* address 0xFF.
C11_ReturnFrame ==
  (played /\ file.regSP >= 6) =>
    LET frame == << regA(file), regX(file), regY(file), regPSW(file),
                    regPC(file) % 256, regPC(file) \div 256 >>
    IN /\ stackPointer = file.regSP - 6
       /\ 255 \in DOMAIN finalImage /\ finalImage[255] = file.regSP - 6
       /\ \A k \in 1..6 :
            /\ 256 + (file.regSP - 6) + k \in DOMAIN finalImage
            /\ finalImage[256 + (file.regSP - 6) + k] = frame[k]

C11_Witness == played /\ file.regSP = 6 /\ finalImage[255] = 0

\* C12: when the four port bytes programData[0xF4..0xF7] of the snapshot are
\* all zero, slot 0x10 of the patched boot loader holds a non-zero sentinel;
\* otherwise slot 0x10 holds programData[0xF4] and slot 0x16 holds
\* programData[0xF7].  (Slot s of the loader is element s + 1 of the sequence.)
PortsAllZero(spc) == \A a \in 244..247 : programData(spc, a) = 0

C12_PortSentinel ==
  (writerState = "loaded") =>
    IF PortsAllZero(file)
      THEN bootLoader[17] # 0
      ELSE /\ bootLoader[17] = programData(file, 244)
           /\ bootLoader[23] = programData(file, 247)

\* C13: when findBootLoaderAddress returns -1 the load fails with the
\* no-space error before any loader is built: the snapshot has no boot loader
\* and no DSP loader, the offset stays -1 (no fallback), the error reaches the
\* caller; and a load fails in no other case.
C13_NoSpaceIsFatal ==
  [][ /\ (loads' = loads + 1 /\ findBootLoaderAddress(file) = -1) =>
          /\ writerState' = "failed"
          /\ writerError' = "Unable to find space to place boot loader"
          /\ bootLoaderOffset' = -1
      /\ (writerState' = "failed") =>
          /\ bootLoader' = << >>
          /\ dspLoader' = << >>
          /\ finalImage' = << >>
          /\ ~played'
      /\ (writerState' = "loaded") => bootLoaderOffset' >= 0 ]_vars

C13_Witness ==
  /\ writerState = "failed"
  /\ loads = MaxLoads
  /\ file.image = 5

\* C14: calculateChecksum(b) is the sum of the bytes of b modulo 256 (0 for
\* the empty buffer); prepareBufferForSending(b) is b followed by exactly that
\* one byte, so the checksum of the prepared buffer is (2 * checksum(b)) mod
\* 256; the opcode put in front of a frame is not part of the checksum.
RECURSIVE SumRange(_, _, _)
SumRange(buffer, lo, hi) ==
  IF lo > hi THEN 0
  ELSE IF lo = hi THEN buffer[lo]
  ELSE LET mid == (lo + hi) \div 2
       IN SumRange(buffer, lo, mid) + SumRange(buffer, mid + 1, hi)

SumOfBytes(buffer) == SumRange(buffer, 1, Len(buffer))

C14_ChecksumIsSumMod256 ==
  /\ codecPc \in {"summed", "prepared", "rechecked", "framed"} =>
        /\ checksum = SumOfBytes(payload) % 256
        /\ (payload = << >>) => checksum = 0
  /\ codecPc \in {"prepared", "rechecked", "framed"} =>
        /\ Len(prepared) = Len(payload) + 1
        /\ SubSeq(prepared, 1, Len(payload)) = payload
        /\ prepared[Len(prepared)] = checksum
  /\ codecPc \in {"rechecked", "framed"} =>
        preparedChecksum = (2 * checksum) % 256
  /\ codecPc = "framed" =>
        /\ Len(command) = Len(payload) + 2
        /\ command[1] \in Opcodes
        /\ SubSeq(command, 2, Len(payload) + 1) = payload
        /\ command[Len(command)] = SumOfBytes(payload) % 256

C14_Witness ==
  /\ codecPc = "framed"
  /\ payload = << 255, 128, 1 >>
  /\ checksum = 128
  /\ preparedChecksum = 0
  /\ command = << CMD_PLAY, 255, 128, 1, 128 >>

\* C15: writeAndWait accepts an acknowledgement only after every slice of the
\* frame has been written and drained: no call is settled by a data event
\* while a drain callback of its writeBuffer is outstanding, and the
\* writeBuffer of a settled call has nothing left to write.
C15_AckOnlyAfterDrain ==
  \A c \in DOMAIN calls :
    (calls[c].state # "pending") =>
      /\ (calls[c].first.ev = "data") => c \notin Draining
      /\ (c \in Draining) => Unsent(calls[c]) = 0

\* C16: writeBuffer sends a frame as consecutive port writes of at most 64
\* bytes each; a slice is written only by the drain callback of the slice
\* before it, one at a time; the slices written so far, in write order, are
\* the frame up to the offset (the whole frame when no drain is outstanding);
\* and a call a drain error rejected has no drain outstanding, so that no
\* later slice is written.
RECURSIVE Flatten(_)
Flatten(slices) ==
  IF slices = << >> THEN << >> ELSE Head(slices) \o Flatten(Tail(slices))

C16_SlicedWrites ==
  [][ \A c \in DOMAIN calls' :
        LET call == calls'[c] IN
        /\ (call.state = "pending") =>
             /\ \A k \in 1..Len(call.written) :
                  Len(call.written[k]) \in 1..MAX_SEND_SIZE
             /\ Flatten(call.written) = SubSeq(call.buffer, 1, call.offset)
             /\ (c \notin Range(drainQ')) => Flatten(call.written) = call.buffer
             /\ (c \in DOMAIN calls /\ calls[c].state = "pending"
                   /\ call.written # calls[c].written) =>
                  /\ Len(call.written) = Len(calls[c].written) + 1
                  /\ drainQ # << >> /\ Head(drainQ) = c
                  /\ calls[c].offset < Len(calls[c].buffer)
        /\ (call.first.ev = "drain") => c \notin Range(drainQ') ]_vars

C16_Witness ==
  \E c \in Pending :
    /\ c \notin Draining
    /\ Len(calls[c].written) = 4
    /\ Len(calls[c].written[4]) = 47
    /\ Len(calls[c].buffer) = 239

\* C17: the header frame of a body chunk is [4, addr & 0xFF, addr >> 8,
\* length, checksum] with checksum = (addrLow + addrHigh + length) mod 256,
\* every field a byte and length the number of chunk bytes sent; the body
\* frame [chunkBytes..., checksum] is written only after the header was
\* acknowledged with OKAY, and the next header only after the body was:
\* while a header or a body awaits its acknowledgement, every frame that
\* loadSPC sent before it has been acknowledged with OKAY.
C17_ChunkHeaderThenBody ==
  \A c \in Pending :
    LET call == calls[c]
        op == ops[call.op]
        chunk == ChunkBuffer(op.arg, call.addr)
        addrLow == call.addr % 256
        addrHigh == call.addr \div 256
    IN /\ call.kind = "hdr" =>
            /\ addrHigh \in 0..255
            /\ Len(chunk) \in 0..255
            /\ call.buffer = << 4, addrLow, addrHigh, Len(chunk),
                                (addrLow + addrHigh + Len(chunk)) % 256 >>
            /\ call.addr = 256 + 128 * (op.chunks - 1)
            /\ op.started = 2 * op.chunks
            /\ op.acked = op.started - 1
       /\ call.kind = "body" =>
            /\ call.buffer = chunk \o << SumOfBytes(chunk) % 256 >>
            /\ Len(call.buffer) = SPC_CHUNK_SIZE + 1
            /\ call.addr = 256 + 128 * (op.chunks - 1)
            /\ op.started = 2 * op.chunks + 1
            /\ op.acked = op.started - 1

C17_Witness ==
  \E c \in Pending :
    /\ calls[c].kind = "hdr"
    /\ calls[c].addr = 384
    /\ calls[c].buffer = << 4, 128, 1, 128, 1 >>
    /\ ops[calls[c].op].acked = 3

\* C18: loadSPC never transfers image bytes of the reserved top region
\* 0xFFC0..0xFFFF: no chunk window of the body phase reaches beyond 0xFFC0.
IPL_REGION_START == 65472

C18_ReservedRegionNotSent ==
  \A o \in OpsOf("loadSPC") : ops[o].chunks > 0 => ops[o].hi <= IPL_REGION_START

\* C19: the first frame of loadSPC is [3], the 237 image bytes at the
\* addresses 2 .. 0xEE in order, and the sum of those bytes modulo 256; no
\* chunk header is written until that frame was acknowledged with OKAY.
C19_ZeroPageFirst ==
  /\ \A c \in Pending :
       LET call == calls[c]
           op == ops[call.op]
           zeroPage == [k \in 1..237 |-> SpcByte(op.arg, k + 1)]
       IN call.kind = "zeropage" =>
            /\ Len(call.buffer) = 239
            /\ call.buffer = << 3 >> \o zeroPage \o << SumOfBytes(zeroPage) % 256 >>
            /\ op.started = 1 /\ op.chunks = 0 /\ op.acked = 0
  /\ \A o \in OpsOf("loadSPC") :
       /\ ops[o].started >= 1 => ops[o].pc \in {"zeropage", "hdr", "body"}
       /\ ops[o].chunks > 0 => ops[o].acked >= 1

C19_Witness ==
  \E c \in Pending :
    /\ calls[c].kind = "hdr"
    /\ calls[c].addr = BODY_START
    /\ ops[calls[c].op].acked = 1
    /\ ops[calls[c].op].started = 2

\* C20: findBootLoaderAddress scans the end addresses i from 0xFFBF down to
\* 0x100 + L inclusive and returns i - L for the highest i whose chunk
\* [i - L, i) equals programData[i] throughout, -1 exactly when there is no
\* such i; a returned window lies inside [0x100, 0xFFBF].
InclusiveScan(spc) ==
  LET bootLoaderSize == Len(BootLoader)
      i == ScanDown(spc, LOWEST_BOOTABLE_ADDRESS + bootLoaderSize,
                    HIGHEST_BOOTABLE_ADDRESS, bootLoaderSize)
  IN IF i = -1 THEN -1 ELSE i - bootLoaderSize

C20_ScanRange ==
  (writerState \in {"loaded", "failed"}) =>
    /\ bootLoaderOffset = InclusiveScan(file)
    /\ (bootLoaderOffset # -1) =>
         /\ bootLoaderOffset >= LOWEST_BOOTABLE_ADDRESS
         /\ bootLoaderOffset + Len(BootLoader) - 1 <= HIGHEST_BOOTABLE_ADDRESS

\* C21: the finalized image differs from the snapshot's programData at no
\* address other than the stub window [offset, offset + L), address 0xFF and
\* the six return-frame addresses; the stub window holds exactly the patched
\* boot loader; and play() leaves the snapshot as it was.
StubWindow == bootLoaderOffset..(bootLoaderOffset + Len(bootLoader) - 1)

ReturnFrameAddresses == {256 + stackPointer + k : k \in 1..6}

C21_FinalImageFrame ==
  [][ played' =>
        /\ file' = file
        /\ DOMAIN finalImage' \subseteq (StubWindow \cup {255} \cup ReturnFrameAddresses)'
        /\ \A a \in StubWindow' :
             /\ a \in DOMAIN finalImage'
             /\ finalImage'[a] = bootLoader'[a - bootLoaderOffset' + 1] ]_vars

\* C25: in the finalized image none of the six return-frame addresses lies
\* inside the window [offset, offset + L) of the injected boot loader.
C25_FrameOutsideStub ==
  played => (StubWindow \cap ReturnFrameAddresses) = {}

\* C22: after any sequence of loads the exported BootLoader and DspLoader are
\* byte for byte what they were; the loaders of a loaded snapshot are copies
\* of the same length that differ from them only at the patch slots (boot
\* loader: 0x01, 0x04, 0x10, 0x16, 0x1A, 0x20, 0x26, 0x29; DSP loader: 0x0F,
\* 0x12, 0x15, 0x18).
BootLoaderSlots == {1, 4, 16, 22, 26, 32, 38, 41}

DspLoaderSlots == {15, 18, 21, 24}

C22_TemplatesUntouched ==
  /\ programs.BootLoader = BootLoader
  /\ programs.DspLoader = DspLoader
  /\ (writerState = "loaded") =>
       /\ Len(bootLoader) = Len(BootLoader)
       /\ Len(dspLoader) = Len(DspLoader)
       /\ \A k \in 1..Len(BootLoader) :
            (bootLoader[k] # BootLoader[k]) => (k - 1) \in BootLoaderSlots
       /\ \A k \in 1..Len(DspLoader) :
            (dspLoader[k] # DspLoader[k]) => (k - 1) \in DspLoaderSlots

C22_Witness ==
  /\ writerState = "loaded"
  /\ loads = MaxLoads
  /\ \A slot \in {1, 4, 16, 22} : bootLoader[slot + 1] # BootLoader[slot + 1]
  /\ \A slot \in DspLoaderSlots : dspLoader[slot + 1] # DspLoader[slot + 1]

\* C23: a writeAndWait called while the port is not open rejects with 'Port
\* has not been opened' and does nothing else: it has no listener on 'data'
\* or 'error' and no write or drain of its frame is under way.
C23_NotOpenHasNoEffect ==
  \A c \in DOMAIN calls :
    (calls[c].first.ev = "notOpen") =>
      /\ calls[c].state = "rejected"
      /\ calls[c].payload = NotOpenReason
      /\ c \notin Listening
      /\ c \notin Range(errL)
      /\ c \notin Draining

\* C24: once a writeAndWait call has completed, by whatever event, neither
\* its data handler nor its error handler is registered on the port; and
\* once open() has resolved its READY listener is not registered on 'data'.
C24_ListenersRemoved ==
  /\ \A c \in DOMAIN calls :
       (calls[c].state # "pending") => (c \notin Listening /\ c \notin Range(errL))
  /\ (openP = "resolved") => OpenListener \notin Range(dataL)

\* C26: for every stack pointer of the snapshot, SP < 6 included, the byte
\* at address 0xFF of the finalized image and the byte in slot 0x18 of the DSP
\* loader are the same byte, and the six return-frame bytes are in the stack
\* page 0x100..0x1FF at the addresses 0x100 + that byte + 1 .. + 6.
C26_StackPointerByte ==
  played =>
    LET frame == << regA(file), regX(file), regY(file), regPSW(file),
                    regPC(file) % 256, regPC(file) \div 256 >>
        value == finalImage[255]
    IN /\ value \in 0..255
       /\ dspLoader[25] = value
       /\ \A k \in 1..6 :
            /\ 256 + value + k \in 256..511
            /\ 256 + value + k \in DOMAIN finalImage
            /\ finalImage[256 + value + k] = frame[k]

============================================================================
